---- MODULE Spec2Model ----
(***************************************************************************)
(* Model of the signal-evaluation and backtesting engine of                *)
(* trade_signal_bot:                                                       *)
(*   src/src/utils/strategies.py   the five strategy evaluators            *)
(*   src/src/bot.py                TradingBot.analyze_signals              *)
(*   src/src/utils/backtester.py   Backtester                              *)
(*                                                                         *)
(* Numbers.  Close/High/Low/Volume, capital, cost and revenue are whole    *)
(* numbers (prices in the smallest currency unit); on such inputs the      *)
(* float expression int((capital * 0.95) / price) equals the integer       *)
(* floor(95 * capital / (100 * price)).  Indicator values (RSI, MACD,      *)
(* MACD_signal, BB_high, BB_low) are floats that may be NaN: a record      *)
(* [nan, v] with v an exact fraction <<numerator, denominator>>.  Signal   *)
(* strengths and clustered price levels are exact fractions.               *)
(***************************************************************************)
EXTENDS Integers, Sequences, FiniteSets, TLC

VARIABLES
    \* ---- Backtester instance (backtester.py:8-16) and run_backtest frame
    initial_capital,  \* self.initial_capital
    capital,          \* self.capital
    position,         \* self.position: number of shares held
    trades,           \* self.trades: the trade log
    pc,               \* where run_backtest stands: idle, loop, signals, done
    calls,            \* number of run_backtest calls made on the instance
    data,             \* rows of df read so far (current_data = data[1..i+1])
    len_df,           \* len(df)
    i,                \* loop index of run_backtest (0-based)
    signals,          \* signals of the current bar not yet processed
    result,           \* what run_backtest returned
    \* ---- one call of an evaluator or of an aggregator on a given frame
    e_df,             \* the DataFrame handed to the call
    e_params,         \* rsi_buy, rsi_sell of an rsi_strategy call
    e_levels,         \* levels of a cluster_levels call
    e_threshold,      \* threshold of a cluster_levels call
    e_window,         \* window of a find_support_resistance call
    e_trend_signals,  \* signals of a _combine_signals call
    e_confidences,    \* confidences of a _combine_signals call
    e_pc,             \* ready, running (TradingBot.analyze_signals), done
    e_call,           \* which function was called
    e_ret,            \* what it returned / raised
    e_idx,            \* TradingBot.analyze_signals: next strategy (1-based)
    e_signals         \* TradingBot.analyze_signals: its local list `signals`

bt_vars == <<initial_capital, capital, position, trades, pc, calls, data,
             len_df, i, signals, result>>
\* the arguments of a call other than the frame
e_args == <<e_params, e_levels, e_threshold, e_window, e_trend_signals,
           e_confidences>>
ev_vars == <<e_df, e_args, e_pc, e_call, e_ret, e_idx, e_signals>>
vars == <<bt_vars, ev_vars>>

----------------------------------------------------------------------------
(* Exact fractions <<n, d>> with d > 0.                                    *)

Abs(x) == IF x < 0 THEN -x ELSE x

RECURSIVE GCD(_, _)
GCD(a, b) == IF b = 0 THEN a ELSE GCD(b, a % b)

Rat(n, d) == LET g == GCD(Abs(n), d) IN <<n \div g, d \div g>>

RLt(a, b) == a[1] * b[2] < b[1] * a[2]
RLe(a, b) == a[1] * b[2] <= b[1] * a[2]
REq(a, b) == a[1] * b[2] = b[1] * a[2]
RAdd(a, b) == Rat(a[1] * b[2] + b[1] * a[2], a[2] * b[2])
RSub(a, b) == Rat(a[1] * b[2] - b[1] * a[2], a[2] * b[2])
RMul(a, b) == Rat(a[1] * b[1], a[2] * b[2])
\* a / b for b > 0
RDiv(a, b) == Rat(a[1] * b[2], a[2] * b[1])
RAbs(a) == <<Abs(a[1]), a[2]>>
RMin(a, b) == IF RLe(a, b) THEN a ELSE b
RInt(k) == <<k, 1>>
ROne == RInt(1)
RZero == RInt(0)

(* Floats that may be NaN; every ordered comparison with NaN is False.     *)
Fl(n, d) == [nan |-> FALSE, v |-> Rat(n, d)]
NaN == [nan |-> TRUE, v |-> RZero]
FLt(a, b) == ~a.nan /\ ~b.nan /\ RLt(a.v, b.v)
FLe(a, b) == ~a.nan /\ ~b.nan /\ RLe(a.v, b.v)
FGt(a, b) == FLt(b, a)
FGe(a, b) == FLe(b, a)

----------------------------------------------------------------------------
(* DataFrame: [cols, rows]; rows is the sequence of bars, oldest first.    *)
(* A bar: [Close, High, Low, Volume, RSI, MACD, MACD_signal, BB_high,      *)
(* BB_low].  df[c] raises KeyError when c is no column; .iloc[-k] raises   *)
(* IndexError when there are fewer than k rows.                            *)

AllCols == {"Close", "High", "Low", "Volume", "RSI", "MACD", "MACD_signal",
            "BB_high", "BB_low"}

Frame(rows) == [cols |-> AllCols, rows |-> rows]
Iloc(df, k) == df.rows[Len(df.rows) + 1 - k]    \* .iloc[-k]
Prefix(df, n) == [cols |-> df.cols, rows |-> SubSeq(df.rows, 1, n)]

(* What a strategy call gives: None, a Signal, or an exception.            *)
None == [kind |-> "None"]
Raise(e) == [kind |-> "Raise", exc |-> e]
Signal(type, price, reason, strength) ==
    [kind |-> "Signal", type |-> type, price |-> price, reason |-> reason,
     strength |-> strength]

\* first failing access of a list of <<column, rows needed>> reads, or "ok"
RECURSIVE Access(_, _)
Access(df, reads) ==
    IF reads = <<>> THEN "ok"
    ELSE IF Head(reads)[1] \notin df.cols THEN "KeyError"
    ELSE IF Len(df.rows) < Head(reads)[2] THEN "IndexError"
    ELSE Access(df, Tail(reads))

----------------------------------------------------------------------------
(* strategies.py:19-46                                                     *)

RsiBuyDefault == 35
RsiSellDefault == 65

\* strategies.py:40 and 43: the two tests on the current RSI
RsiIsBuyInclusive(current_rsi, rsi_buy) == FLe(current_rsi, Fl(rsi_buy, 1))
RsiIsBuy(current_rsi, rsi_buy) == FLt(current_rsi, Fl(rsi_buy, 1))
RsiIsSell(current_rsi, rsi_sell) == FGt(current_rsi, Fl(rsi_sell, 1))

rsi_strategy(df, rsi_buy, rsi_sell) ==
    LET acc == Access(df, << <<"RSI", 1>>, <<"Close", 1>> >>) IN
    IF acc # "ok" THEN Raise(acc)
    ELSE
      LET current_rsi == Iloc(df, 1).RSI
          price == Iloc(df, 1).Close
      IN IF RsiIsBuy(current_rsi, rsi_buy)
         THEN Signal("BUY", price, <<"RSI oversold", current_rsi.v>>,
                     RSub(ROne, RDiv(current_rsi.v, RInt(rsi_buy))))
         ELSE IF RsiIsSell(current_rsi, rsi_sell)
         THEN Signal("SELL", price, <<"RSI overbought", current_rsi.v>>,
                     RDiv(RSub(current_rsi.v, RInt(rsi_sell)),
                          RInt(100 - rsi_sell)))
         ELSE None

(* strategies.py:49-83                                                     *)
\* strategies.py:77 and 80: the two crossover tests
MacdBullishStrict(prev_macd, prev_signal, current_macd, current_signal) ==
    FLt(prev_macd, prev_signal) /\ FGt(current_macd, current_signal)
MacdBullish(prev_macd, prev_signal, current_macd, current_signal) ==
    FLe(prev_macd, prev_signal) /\ FGt(current_macd, current_signal)
MacdBearish(prev_macd, prev_signal, current_macd, current_signal) ==
    FGe(prev_macd, prev_signal) /\ FLt(current_macd, current_signal)

macd_cross_strategy(df) ==
    IF Len(df.rows) < 2 THEN None
    ELSE
      LET acc == Access(df, << <<"MACD", 1>>, <<"MACD_signal", 1>>,
                              <<"Close", 1>> >>) IN
      IF acc # "ok" THEN Raise(acc)
      ELSE
        LET current_macd == Iloc(df, 1).MACD
            current_signal == Iloc(df, 1).MACD_signal
            prev_macd == Iloc(df, 2).MACD
            prev_signal == Iloc(df, 2).MACD_signal
            price == Iloc(df, 1).Close
            strength == RMin(ROne, RAbs(RSub(current_macd.v, current_signal.v)))
        IN IF MacdBullish(prev_macd, prev_signal, current_macd, current_signal)
           THEN Signal("BUY", price, <<"MACD bullish crossover">>, strength)
           ELSE IF MacdBearish(prev_macd, prev_signal, current_macd, current_signal)
           THEN Signal("SELL", price, <<"MACD bearish crossover">>, strength)
           ELSE None

(* strategies.py:86-116; band_margin = 0.005 = 5/1000                      *)
BandMarginNum == 5
BandMarginDen == 1000

\* strategies.py:110 and 113: the two tests on the last close
BollingerIsBuyRawBand(price, lower_band) == FLt(Fl(price, 1), lower_band)
BollingerIsBuy(price, lower_band) ==
    FLt(Fl(price, 1),
        [nan |-> lower_band.nan,
         v |-> RMul(lower_band.v, RAdd(ROne, <<BandMarginNum, BandMarginDen>>))])
BollingerIsSell(price, upper_band) ==
    FGt(Fl(price, 1),
        [nan |-> upper_band.nan,
         v |-> RMul(upper_band.v, RSub(ROne, <<BandMarginNum, BandMarginDen>>))])

bollinger_bands_strategy(df) ==
    LET acc == Access(df, << <<"Close", 1>>, <<"BB_high", 1>>,
                            <<"BB_low", 1>> >>) IN
    IF acc # "ok" THEN Raise(acc)
    ELSE
      LET price == Iloc(df, 1).Close
          upper_band == Iloc(df, 1).BB_high
          lower_band == Iloc(df, 1).BB_low
      IN IF BollingerIsBuy(price, lower_band)
         THEN Signal("BUY", price, <<"Price near lower Bollinger Band">>,
                     RDiv(RSub(lower_band.v, RInt(price)), lower_band.v))
         ELSE IF BollingerIsSell(price, upper_band)
         THEN Signal("SELL", price, <<"Price near upper Bollinger Band">>,
                     RDiv(RSub(RInt(price), upper_band.v), upper_band.v))
         ELSE None

----------------------------------------------------------------------------
\* sum / min / max over rows a..b of an integer column
RECURSIVE SumCol(_, _, _, _)
SumCol(rows, col, a, b) ==
    IF a > b THEN 0 ELSE rows[a][col] + SumCol(rows, col, a + 1, b)

MinCol(rows, col, a, b) ==
    CHOOSE m \in {rows[k][col] : k \in a..b} :
        \A k \in a..b : m <= rows[k][col]

MaxCol(rows, col, a, b) ==
    CHOOSE m \in {rows[k][col] : k \in a..b} :
        \A k \in a..b : m >= rows[k][col]

(* strategies.py:119-152                                                   *)
VolumeMinBars == 20
VolumeWindow == 20
\* the surge factor 1.5 = 3/2 (strategies.py:146 and 271)
SurgeNum == 3
SurgeDen == 2

\* df['Volume'].rolling(window=20).mean().iloc[-1]; NaN below 20 rows
RollingMeanVolume(df, window) ==
    LET n == Len(df.rows) IN
    IF n < window THEN NaN
    ELSE Fl(SumCol(df.rows, "Volume", n - window + 1, n), window)

VolumeSurge(current_volume, avg_volume) ==
    FGt(Fl(current_volume, 1),
        [nan |-> avg_volume.nan, v |-> RMul(<<SurgeNum, SurgeDen>>, avg_volume.v)])

volume_strength_unclamped(current_volume, avg_volume) ==
    RSub(RDiv(RInt(current_volume), avg_volume.v), ROne)
volume_strength(current_volume, avg_volume) ==
    RMin(ROne, RSub(RDiv(RInt(current_volume), avg_volume.v), ROne))

volume_price_strategy(df) ==
    IF Len(df.rows) < VolumeMinBars THEN None
    ELSE
      LET acc == Access(df, << <<"Volume", 1>>, <<"Close", 1>> >>) IN
      IF acc # "ok" THEN Raise(acc)
      ELSE
        LET current_volume == Iloc(df, 1).Volume
            avg_volume == RollingMeanVolume(df, VolumeWindow)
            price == Iloc(df, 1).Close
            prev_close == Iloc(df, 2).Close
        IN IF VolumeSurge(current_volume, avg_volume)
           THEN \* price_change = (price - prev_close) / prev_close, prev_close > 0
                IF price > prev_close
                THEN Signal("BUY", price, <<"High volume price increase">>,
                            volume_strength(current_volume, avg_volume))
                ELSE IF price < prev_close
                THEN Signal("SELL", price, <<"High volume price decrease">>,
                            volume_strength(current_volume, avg_volume))
                ELSE None
           ELSE None

----------------------------------------------------------------------------
(* strategies.py:155-210                                                   *)
SRWindow == 20
\* threshold = 0.02 = 2/100
SRThresholdNum == 2
SRThresholdDen == 100

\* mean of a non-empty list of whole numbers
RECURSIVE SumSeq(_)
SumSeq(s) == IF s = <<>> THEN 0 ELSE Head(s) + SumSeq(Tail(s))

Mean(s) == Rat(SumSeq(s), Len(s))

\* strategies.py:197: the test that keeps `level` in the open cluster
WithinClusterOfLast(level, current_cluster, threshold) ==
    RLe(Rat(level - current_cluster[Len(current_cluster)],
            current_cluster[Len(current_cluster)]), threshold)
WithinCluster(level, current_cluster, threshold) ==
    RLe(Rat(level - current_cluster[1], current_cluster[1]), threshold)

\* the loop of cluster_levels (strategies.py:196-201) over the sorted levels
RECURSIVE ClusterLoop(_, _, _, _)
ClusterLoop(levels, threshold, current_cluster, clustered) ==
    IF levels = <<>>
    THEN Append(clustered, Mean(current_cluster))
    ELSE LET level == Head(levels) IN
         IF WithinCluster(level, current_cluster, threshold)
         THEN ClusterLoop(Tail(levels), threshold,
                          Append(current_cluster, level), clustered)
         ELSE ClusterLoop(Tail(levels), threshold, <<level>>,
                          Append(clustered, Mean(current_cluster)))

cluster_levels(levels, threshold) ==
    IF levels = <<>> THEN <<>>
    ELSE LET sorted == SortSeq(levels, LAMBDA x, y : x < y)
         IN ClusterLoop(Tail(sorted), threshold, <<Head(sorted)>>, <<>>)

\* row j (1-based; j = i + 1 for the loop index i) is a support pivot
IsSupportPivot(rows, j, window) ==
    /\ \A k \in (j - window)..(j - 1) : rows[j].Low <= rows[k].Low
    /\ \A k \in (j + 1)..(j + window - 1) : rows[j].Low <= rows[k].Low
    /\ rows[j].Volume * (2 * window)
         > SumCol(rows, "Volume", j - window, j + window - 1)

IsResistancePivot(rows, j, window) ==
    /\ \A k \in (j - window)..(j - 1) : rows[j].High >= rows[k].High
    /\ \A k \in (j + 1)..(j + window - 1) : rows[j].High >= rows[k].High
    /\ rows[j].Volume * (2 * window)
         > SumCol(rows, "Volume", j - window, j + window - 1)

\* the lows of the support pivots among rows a..b, in row order
RECURSIVE SupportPivots(_, _, _, _)
SupportPivots(rows, a, b, window) ==
    IF a > b THEN <<>>
    ELSE (IF IsSupportPivot(rows, a, window) THEN <<rows[a].Low>> ELSE <<>>)
         \o SupportPivots(rows, a + 1, b, window)

\* the highs of the resistance pivots among rows a..b, in row order
RECURSIVE ResistancePivots(_, _, _, _)
ResistancePivots(rows, a, b, window) ==
    IF a > b THEN <<>>
    ELSE (IF IsResistancePivot(rows, a, window) THEN <<rows[a].High>> ELSE <<>>)
         \o ResistancePivots(rows, a + 1, b, window)

find_support_resistance(df, window, threshold) ==
    LET rows == df.rows
        n == Len(rows)
        \* for i in range(window, len(df) - window): rows window+1 .. n-window
        support_levels == SupportPivots(rows, window + 1, n - window, window)
        resistance_levels == ResistancePivots(rows, window + 1, n - window, window)
    IN [support |-> cluster_levels(support_levels, threshold),
        resistance |-> cluster_levels(resistance_levels, threshold)]

----------------------------------------------------------------------------
(* strategies.py:213-317                                                   *)
SwingMinBars == 20
SwingVolumeWindow == 20
TrendWindow == 5
\* 0.02 = 2/100: the "near support / resistance" distance
NearNum == 2
NearDen == 100
SwingRsiBuy == 40
SwingRsiSell == 60
SwingRsiVeryLow == 30
SwingRsiVeryHigh == 70

SeqToSet(s) == {s[k] : k \in 1..Len(s)}

\* max(..., default=None) / min(..., default=None) over fractions
RMaxOrNone(S) ==
    IF S = {} THEN None
    ELSE [kind |-> "Level",
          v |-> CHOOSE x \in S : \A y \in S : RLe(y, x)]

RMinOrNone(S) ==
    IF S = {} THEN None
    ELSE [kind |-> "Level",
          v |-> CHOOSE x \in S : \A y \in S : RLe(x, y)]

\* `not x` for an optional level: None and 0.0 are both falsy
Falsy(x) == x.kind = "None" \/ REq(x.v, RZero)

\* sum(strength_factors), strategies.py:285-292 and 302-309
swing_strength_flat(volume_surge, rsi_extreme, distance) ==
    RMin(ROne,
         RAdd(RAdd(<<3, 10>>, IF volume_surge THEN <<2, 10>> ELSE RZero),
              IF rsi_extreme THEN <<3, 10>> ELSE <<1, 10>>))
swing_strength(volume_surge, rsi_extreme, distance) ==
    RMin(ROne,
         RAdd(RAdd(<<3, 10>>, IF volume_surge THEN <<2, 10>> ELSE RZero),
              RAdd(IF rsi_extreme THEN <<3, 10>> ELSE <<1, 10>>,
                   RMul(<<2, 10>>,
                        RSub(ROne, RDiv(distance, <<NearNum, NearDen>>))))))

swing_body(df) ==
    LET rows == df.rows
        n == Len(rows)
        current_price == Iloc(df, 1).Close
        current_volume == Iloc(df, 1).Volume
        avg_volume == RollingMeanVolume(df, SwingVolumeWindow)
        rsi == Iloc(df, 1).RSI
        prev_rsi == Iloc(df, 2).RSI
        levels == find_support_resistance(df, SRWindow,
                                          <<SRThresholdNum, SRThresholdDen>>)
        nearest_support ==
            RMaxOrNone({s \in SeqToSet(levels.support) :
                            RLt(s, RInt(current_price))})
        nearest_resistance ==
            RMinOrNone({r \in SeqToSet(levels.resistance) :
                            RLt(RInt(current_price), r)})
    IN IF levels.support = <<>> \/ levels.resistance = <<>> THEN None
       ELSE IF Falsy(nearest_support) \/ Falsy(nearest_resistance) THEN None
       ELSE
         LET support_distance ==
                 RDiv(RSub(RInt(current_price), nearest_support.v),
                      nearest_support.v)
             resistance_distance ==
                 RDiv(RSub(nearest_resistance.v, RInt(current_price)),
                      RInt(current_price))
             volume_surge == VolumeSurge(current_volume, avg_volume)
             \* last_5_lows.iloc[-1] and .iloc[-5]
             higher_lows ==
                 MinCol(rows, "Low", n - TrendWindow + 1, n)
                   > MinCol(rows, "Low", n - 2 * TrendWindow + 2, n - TrendWindow + 1)
             lower_highs ==
                 MaxCol(rows, "High", n - TrendWindow + 1, n)
                   < MaxCol(rows, "High", n - 2 * TrendWindow + 2, n - TrendWindow + 1)
             near == <<NearNum, NearDen>>
         IN IF /\ RLt(support_distance, near)
               /\ higher_lows
               /\ FLt(rsi, Fl(SwingRsiBuy, 1))
               /\ FGt(rsi, prev_rsi)
            THEN Signal("BUY", current_price,
                        <<"Swing Trade BUY: Near support", nearest_support.v>>,
                        swing_strength(volume_surge,
                                       FLt(rsi, Fl(SwingRsiVeryLow, 1)),
                                       support_distance))
            ELSE IF /\ RLt(resistance_distance, near)
                    /\ lower_highs
                    /\ FGt(rsi, Fl(SwingRsiSell, 1))
                    /\ FLt(rsi, prev_rsi)
            THEN Signal("SELL", current_price,
                        <<"Swing Trade SELL: Near resistance", nearest_resistance.v>>,
                        swing_strength(volume_surge,
                                       FGt(rsi, Fl(SwingRsiVeryHigh, 1)),
                                       resistance_distance))
            ELSE None

\* try: ... except Exception: return None
swing_trade_strategy(df) ==
    IF Len(df.rows) < SwingMinBars THEN None
    ELSE IF Access(df, << <<"Close", 1>>, <<"Volume", 1>>, <<"RSI", 2>>,
                         <<"High", 1>>, <<"Low", 1>> >>) # "ok"
    THEN None
    ELSE swing_body(df)

----------------------------------------------------------------------------
(* bot.py:56-73  TradingBot.analyze_signals, one strategy per step         *)

\* self.min_signal_strength = 0.3 (bot.py:15)
MinStrengthNum == 3
MinStrengthDen == 10
min_signal_strength == <<MinStrengthNum, MinStrengthDen>>

\* the list `strategies` of bot.py:61-66
BotStrategyNames == <<"rsi_strategy", "macd_cross_strategy",
                      "bollinger_bands_strategy", "volume_price_strategy">>

CallStrategy(name, df) ==
    CASE name = "rsi_strategy" -> rsi_strategy(df, RsiBuyDefault, RsiSellDefault)
      [] name = "macd_cross_strategy" -> macd_cross_strategy(df)
      [] name = "bollinger_bands_strategy" -> bollinger_bands_strategy(df)
      [] name = "volume_price_strategy" -> volume_price_strategy(df)
      [] name = "swing_trade_strategy" -> swing_trade_strategy(df)

\* bot.py:70: if signal and signal.strength >= self.min_signal_strength
BotKeeps(signal) ==
    signal.kind = "Signal" /\ RLe(min_signal_strength, signal.strength)

(* backtester.py:24-46  Backtester.analyze_signals                         *)
BacktesterStrategyNames == <<"rsi_strategy", "macd_cross_strategy",
                             "bollinger_bands_strategy", "swing_trade_strategy">>

\* backtester.py:30: if rsi_signal: signals.append(rsi_signal)
BacktesterKeeps(signal) == signal.kind = "Signal"

RECURSIVE BacktesterRun(_, _, _)
BacktesterRun(df, names, acc) ==
    IF names = <<>> THEN [raised |-> FALSE, signals |-> acc]
    ELSE LET r == CallStrategy(Head(names), df) IN
         IF r.kind = "Raise" THEN [raised |-> TRUE, signals |-> <<>>]
         ELSE BacktesterRun(df, Tail(names),
                            IF BacktesterKeeps(r) THEN Append(acc, r) ELSE acc)

Backtester_analyze_signals(df) == BacktesterRun(df, BacktesterStrategyNames, <<>>)

----------------------------------------------------------------------------
(* trend_predictor.py:120-142                                              *)

Directions == {"UP", "DOWN", "SIDEWAYS"}

\* a verdict of a sub-estimator, and of predict_trend
Estimate(direction, confidence) ==
    [direction |-> direction, confidence |-> confidence]
Verdict(direction, strength, reason) ==
    [kind |-> "Verdict", direction |-> direction, strength |-> strength,
     reason |-> reason]

\* signals.count(direction)
Count(trend_signals, direction) ==
    Cardinality({k \in 1..Len(trend_signals) : trend_signals[k] = direction})

\* sum(confidences)
RECURSIVE RSum(_)
RSum(confidences) ==
    IF confidences = <<>> THEN RZero
    ELSE RAdd(Head(confidences), RSum(Tail(confidences)))

\* trend_predictor.py:133 and 137: the two tests on the vote counts
TrendIsUpOrTie(up_signals, down_signals) == up_signals >= down_signals
TrendIsUp(up_signals, down_signals) == up_signals > down_signals
TrendIsDown(up_signals, down_signals) == down_signals > up_signals

combine_signals(trend_signals, confidences) ==
    IF trend_signals = <<>>
    THEN Verdict("SIDEWAYS", RZero, <<"Insufficient data">>)
    ELSE
      LET up_signals == Count(trend_signals, "UP")
          down_signals == Count(trend_signals, "DOWN")
          avg_confidence == RDiv(RSum(confidences), RInt(Len(confidences)))
      IN IF TrendIsUp(up_signals, down_signals)
         THEN Verdict("UP",
                      RMul(avg_confidence, Rat(up_signals, Len(trend_signals))),
                      <<"Bullish signals", up_signals, Len(trend_signals)>>)
         ELSE IF TrendIsDown(up_signals, down_signals)
         THEN Verdict("DOWN",
                      RMul(avg_confidence, Rat(down_signals, Len(trend_signals))),
                      <<"Bearish signals", down_signals, Len(trend_signals)>>)
         ELSE Verdict("SIDEWAYS", avg_confidence, <<"Mixed signals">>)

----------------------------------------------------------------------------
(* trend_predictor.py:46-117: the three sub-estimators.  Each one catches  *)
(* every exception of its body and returns ("SIDEWAYS", 0.0).              *)

MAShort == 20
MALong == 50
MomentumHigh == 70
MomentumLow == 30
MomentumSpan == 30
PatternBars == 10
\* the confidence 0.3 of a SIDEWAYS verdict (trend_predictor.py:60, 88)
NeutralNum == 3
NeutralDen == 10

\* df['Close'].rolling(window).mean().iloc[-1]; NaN below `window` rows
RollingMeanClose(df, window) ==
    LET n == Len(df.rows) IN
    IF n < window THEN NaN
    ELSE Fl(SumCol(df.rows, "Close", n - window + 1, n), window)

\* what a sub-estimator returns from its except branch
Degraded == Estimate("SIDEWAYS", RZero)

analyze_moving_averages(df) ==
    IF Access(df, << <<"Close", 1>> >>) # "ok" THEN Degraded
    ELSE
      LET ma20 == RollingMeanClose(df, MAShort)
          ma50 == RollingMeanClose(df, MALong)
          current_price == Fl(Iloc(df, 1).Close, 1)
      IN IF FGt(current_price, ma20) /\ FGt(ma20, ma50)
         THEN Estimate("UP",
                       RMin(ROne, RDiv(RSub(current_price.v, ma50.v), ma50.v)))
         ELSE IF FLt(current_price, ma20) /\ FLt(ma20, ma50)
         THEN Estimate("DOWN",
                       RMin(ROne, RDiv(RSub(ma50.v, current_price.v),
                                       current_price.v)))
         ELSE Estimate("SIDEWAYS", <<NeutralNum, NeutralDen>>)

analyze_momentum(df) ==
    IF Access(df, << <<"RSI", 1>> >>) # "ok" THEN Degraded
    ELSE
      LET rsi == Iloc(df, 1).RSI IN
      IF FGt(rsi, Fl(MomentumHigh, 1))
      THEN Estimate("UP", RMin(ROne, RDiv(RSub(rsi.v, RInt(MomentumHigh)),
                                          RInt(MomentumSpan))))
      ELSE IF FLt(rsi, Fl(MomentumLow, 1))
      THEN Estimate("DOWN", RMin(ROne, RDiv(RSub(RInt(MomentumLow), rsi.v),
                                            RInt(MomentumSpan))))
      ELSE IF Access(df, << <<"MACD", 1>>, <<"MACD_signal", 1>> >>) # "ok"
      THEN Degraded
      ELSE
        LET macd == Iloc(df, 1).MACD
            signal == Iloc(df, 1).MACD_signal
        IN IF FGt(macd, signal)
           THEN Estimate("UP", RMin(ROne, RAbs(RSub(macd.v, signal.v))))
           ELSE IF FLt(macd, signal)
           THEN Estimate("DOWN", RMin(ROne, RAbs(RSub(macd.v, signal.v))))
           ELSE Estimate("SIDEWAYS", <<NeutralNum, NeutralDen>>)

\* sum over k in a..b of (k - a)^p * y[k]^q: the sums of the regression of
\* y[a..b] against x = 0 .. b - a
RECURSIVE RegSum(_, _, _, _, _, _)
RegSum(rows, a, b, k, p, q) ==
    IF k > b THEN 0
    ELSE (IF p = 0 THEN 1 ELSE IF p = 1 THEN k - a ELSE (k - a) * (k - a))
         * (IF q = 0 THEN 1 ELSE IF q = 1 THEN rows[k].Close
            ELSE rows[k].Close * rows[k].Close)
         + RegSum(rows, a, b, k + 1, p, q)

\* stats.linregress over the last PatternBars closes.  With no close it
\* raises; with one close it raises or gives slope nan and r 0, depending
\* on the scipy version: ("SIDEWAYS", 0.0) either way.
analyze_price_pattern(df) ==
    IF Access(df, << <<"Close", 0>> >>) # "ok" THEN Degraded
    ELSE
      LET n == Len(df.rows)
          a == IF n > PatternBars THEN n - PatternBars + 1 ELSE 1
          m == n - a + 1
      IN IF m < 2 THEN Degraded
         ELSE
           LET sx == RegSum(df.rows, a, n, a, 1, 0)
               sy == RegSum(df.rows, a, n, a, 0, 1)
               sxy == RegSum(df.rows, a, n, a, 1, 1)
               sxx == RegSum(df.rows, a, n, a, 2, 0)
               syy == RegSum(df.rows, a, n, a, 0, 2)
               cov == m * sxy - sx * sy
               varx == m * sxx - sx * sx
               vary == m * syy - sy * sy
               r_squared == IF vary = 0 THEN RZero
                            ELSE RMul(Rat(Abs(cov), varx), Rat(Abs(cov), vary))
           IN IF cov > 0 THEN Estimate("UP", RMin(ROne, r_squared))
              ELSE IF cov < 0 THEN Estimate("DOWN", RMin(ROne, r_squared))
              ELSE Estimate("SIDEWAYS", RMin(ROne, r_squared))

\* trend_predictor.py:12-43
predict_trend(df) ==
    LET ma == analyze_moving_averages(df)
        mom == analyze_momentum(df)
        pattern == analyze_price_pattern(df)
    IN combine_signals(<<ma.direction, mom.direction, pattern.direction>>,
                       <<ma.confidence, mom.confidence, pattern.confidence>>)

----------------------------------------------------------------------------
(* backtester.py:48-143  Backtester.run_backtest and calculate_metrics     *)

BacktestMinBars == 20
\* invest 95% of capital: 0.95 = 95/100 (backtester.py:78)
InvestNum == 95
InvestDen == 100

\* backtester.py:76 and 92: the two guards of the trade loop
CanBuyAnyPosition(signal, pos) == signal.type = "BUY"
CanBuy(signal, pos) == signal.type = "BUY" /\ pos = 0
CanSellAnyPosition(signal, pos) == signal.type = "SELL"
CanSell(signal, pos) == signal.type = "SELL" /\ pos > 0

\* backtester.py:78: shares = int((self.capital * 0.95) / price)
BuySharesRoundedUp(cap, price) == (cap * InvestNum) \div (InvestDen * price) + 1
BuyShares(cap, price) == (cap * InvestNum) \div (InvestDen * price)

BuyRecordCapitalBefore(date, price, shares, cost, cap, reason) ==
    [date |-> date, type |-> "BUY", price |-> price, shares |-> shares,
     cost |-> cost, capital |-> cap + cost, reason |-> reason]
BuyRecord(date, price, shares, cost, cap, reason) ==
    [date |-> date, type |-> "BUY", price |-> price, shares |-> shares,
     cost |-> cost, capital |-> cap, reason |-> reason]

SellRecordSharesAfter(date, price, shares, revenue, cap, reason) ==
    [date |-> date, type |-> "SELL", price |-> price, shares |-> 0,
     revenue |-> revenue, capital |-> cap, reason |-> reason]
SellRecord(date, price, shares, revenue, cap, reason) ==
    [date |-> date, type |-> "SELL", price |-> price, shares |-> shares,
     revenue |-> revenue, capital |-> cap, reason |-> reason]

\* trade[key] raises KeyError when the record has no such key
HasKey(trade, key) == key \in DOMAIN trade

\* backtester.py:124-131: the pairs (i, i+1) for i in range(0, len - 1, 2);
\* 1-based these are (2k-1, 2k) for k in 1 .. len \div 2
PairCount(log) == Len(log) \div 2

PairsRaise(log) ==
    \E k \in 1..PairCount(log) :
        ~HasKey(log[2 * k], "revenue") \/ ~HasKey(log[2 * k - 1], "cost")

ProfitableTrades(log) ==
    Cardinality({k \in 1..PairCount(log) :
                    log[2 * k].revenue - log[2 * k - 1].cost > 0})

\* backtester.py:135: total_return is a numpy float once a trade was made, so
\* a zero initial_capital gives nan or +-inf (a fraction <<+-1, 0>>), no raise
ReturnPct(total_return, init_cap) ==
    IF init_cap # 0 THEN Fl(total_return * 100, init_cap)
    ELSE IF total_return = 0 THEN NaN
    ELSE [nan |-> FALSE, v |-> <<IF total_return > 0 THEN 1 ELSE -1, 0>>]

calculate_metrics(log, cap, pos, init_cap) ==
    IF log = <<>>
    THEN [kind |-> "metrics", total_trades |-> 0, profitable_trades |-> 0,
          total_return |-> 0, return_pct |-> Fl(0, 1), trades |-> <<>>]
    ELSE IF PairsRaise(log) THEN Raise("KeyError")
    ELSE
      LET final_capital ==
              cap + (IF pos > 0 THEN pos * log[Len(log)].price ELSE 0)
          total_return == final_capital - init_cap
      IN [kind |-> "metrics",
          total_trades |-> Len(log) \div 2,
          profitable_trades |-> ProfitableTrades(log),
          total_return |-> total_return,
          return_pct |-> ReturnPct(total_return, init_cap),
          trades |-> log]

----------------------------------------------------------------------------
(* The historical series.  get_historical_data is external: the rows of    *)
(* df are inputs.  A series starts with one of the fixed histories below   *)
(* and goes on with up to MaxEval bars drawn from BarChoices; a row is     *)
(* drawn when the loop first reads it.                                     *)

MaxEval == 2

Bar(close, high, low, volume, rsi, macd, macd_signal, bb_high, bb_low) ==
    [Close |-> close, High |-> high, Low |-> low, Volume |-> volume,
     RSI |-> rsi, MACD |-> macd, MACD_signal |-> macd_signal,
     BB_high |-> bb_high, BB_low |-> bb_low]

\* RSI 20: RSI BUY (strength 3/7); MACD above its signal line
BuyBar == Bar(1000, 1050, 950, 100, Fl(20, 1), Fl(1, 1), Fl(0, 1),
              Fl(4000, 1), Fl(500, 1))
\* RSI 80: RSI SELL (strength 3/7); MACD below its signal line
SellBar == Bar(2000, 2050, 1950, 100, Fl(80, 1), Fl(-1, 1), Fl(0, 1),
               Fl(4000, 1), Fl(500, 1))
\* RSI 34: RSI BUY of strength 1/35, at the higher price
WeakBuyBar == Bar(2000, 2050, 1950, 100, Fl(34, 1), NaN, NaN,
                  Fl(4000, 1), Fl(500, 1))
\* RSI BUY and, the close touching the upper band, Bollinger SELL
BuySellBar == Bar(1000, 1050, 950, 100, Fl(20, 1), NaN, NaN,
                  Fl(1000, 1), Fl(500, 1))
\* close 910 just above the support at 900, RSI 37: the swing BUY bar
SwingBar == Bar(910, 960, 905, 100, Fl(37, 1), NaN, NaN,
                Fl(4000, 1), Fl(500, 1))

BarChoices == {BuyBar, SellBar, WeakBuyBar, BuySellBar, SwingBar}

\* 19 quiet bars: every one is skipped by the loop (fewer than 20 rows)
ShortHistory ==
    [k \in 1..(BacktestMinBars - 1) |->
        Bar(1000, 1050, 950, 100, Fl(50, 1), NaN, NaN, NaN, NaN)]

\* 40 bars with one wide, heavy bar (row 21: low 900, high 2100), three
\* dips to 902 (rows 34-36) and no signal; once a 41st bar exists row 21
\* is the one support and resistance pivot
LongHistory ==
    [k \in 1..(2 * SRWindow) |->
        Bar(1000,
            IF k = SRWindow + 1 THEN 2100 ELSE 1050,
            IF k = SRWindow + 1 THEN 900 ELSE IF k \in 34..36 THEN 902 ELSE 950,
            IF k = SRWindow + 1 THEN 1000 ELSE 100,
            IF k = 2 * SRWindow THEN Fl(36, 1) ELSE Fl(50, 1),
            IF k < 34 THEN NaN ELSE Fl(-1, 1),
            IF k < 34 THEN NaN ELSE Fl(0, 1),
            IF k < BacktestMinBars THEN NaN ELSE Fl(4000, 1),
            IF k < BacktestMinBars THEN NaN ELSE Fl(500, 1))]

Histories == {ShortHistory, LongHistory}

\* at most MaxCalls calls of run_backtest on one instance
MaxCalls == 2

\* initial_capital=10000 is the default (backtester.py:8)
InitialCapitals == {0, 1500, 10000}

\* the rows row i (0-based) of df can be, given the rows already read
RowChoices(rows, idx) ==
    IF idx + 1 <= Len(rows) THEN {rows[idx + 1]} ELSE BarChoices

Reveal(rows, idx, row) ==
    IF idx + 1 <= Len(rows) THEN rows ELSE Append(rows, row)

----------------------------------------------------------------------------
(* Values of the variables a specification does not use.                   *)
\* the default arguments: rsi_buy=35, rsi_sell=65, threshold=0.02
DefaultArgs ==
    /\ e_params = <<RsiBuyDefault, RsiSellDefault>>
    /\ e_levels = <<>>
    /\ e_threshold = <<SRThresholdNum, SRThresholdDen>>
    /\ e_window = SRWindow
    /\ e_trend_signals = <<>>
    /\ e_confidences = <<>>

EvIdle ==
    /\ e_df = Frame(<<>>)
    /\ DefaultArgs
    /\ e_pc = "off"
    /\ e_call = "none"
    /\ e_ret = None
    /\ e_idx = 1
    /\ e_signals = <<>>

(* Backtester.__init__ (backtester.py:8-16)                                *)
Init ==
    /\ initial_capital \in InitialCapitals
    /\ capital = initial_capital
    /\ position = 0
    /\ trades = <<>>
    /\ pc = "idle"
    /\ calls = 1
    /\ data = <<>>
    /\ len_df = 0
    /\ i = 0
    /\ signals = <<>>
    /\ result = [kind |-> "pending"]
    /\ EvIdle

Ledger == <<initial_capital, capital, position, trades>>

\* an empty frame falling through to line 107
FetchNothingThenMetrics ==
    /\ pc = "idle"
    /\ pc' = "done"
    /\ result' = calculate_metrics(trades, capital, position, initial_capital)
    /\ UNCHANGED <<initial_capital, capital, position, trades, data, len_df, i,
                   signals, calls, ev_vars>>
\* backtester.py:50-54 and 109-111: the fetch fails or gives an empty frame
FetchNothing ==
    /\ pc = "idle"
    /\ pc' = "done"
    /\ result' = None
    /\ UNCHANGED <<Ledger, data, len_df, i, signals, calls, ev_vars>>

\* backtester.py:52-66: a non-empty frame; the indicators are its columns
FetchData ==
    /\ pc = "idle"
    /\ IF len_df = 0
       THEN \E h \in Histories, extra \in 0..MaxEval :
               /\ data' = h
               /\ len_df' = Len(h) + extra
       ELSE \* a later call: the source serves the same series again
            UNCHANGED <<data, len_df>>
    /\ i' = 0
    /\ pc' = "loop"
    /\ UNCHANGED <<Ledger, signals, result, calls, ev_vars>>

\* backtester.py:66-69: fewer than 20 rows in current_data: continue
SkipBar ==
    /\ pc = "loop"
    /\ i < len_df
    /\ i + 1 < BacktestMinBars
    /\ \E row \in RowChoices(data, i) : data' = Reveal(data, i, row)
    /\ i' = i + 1
    /\ UNCHANGED <<Ledger, pc, len_df, signals, result, calls, ev_vars>>

\* backtester.py:66-73: signals = self.analyze_signals(current_data)
EvalBar ==
    /\ pc = "loop"
    /\ i < len_df
    /\ i + 1 >= BacktestMinBars
    /\ \E row \in RowChoices(data, i) :
          /\ data' = Reveal(data, i, row)
          /\ LET r == Backtester_analyze_signals(Frame(SubSeq(data', 1, i + 1)))
             IN IF r.raised
                THEN pc' = "done" /\ result' = None /\ signals' = <<>>
                ELSE pc' = "signals" /\ signals' = r.signals /\ UNCHANGED result
    /\ UNCHANGED <<Ledger, len_df, i, calls, ev_vars>>

\* backtester.py:76-90
ExecBuy ==
    /\ pc = "signals"
    /\ signals # <<>>
    /\ CanBuy(Head(signals), position)
    /\ LET price == data[i + 1].Close
           shares == BuyShares(capital, price)
           cost == shares * price
       IN /\ capital' = capital - cost
          /\ position' = shares
          /\ trades' = Append(trades,
                 BuyRecord(i, price, shares, cost, capital - cost,
                           Head(signals).reason))
    /\ signals' = Tail(signals)
    /\ UNCHANGED <<initial_capital, pc, data, len_df, i, result, calls, ev_vars>>

\* a SELL whose revenue is recorded but not added to capital
ExecSellUncredited ==
    /\ pc = "signals"
    /\ signals # <<>>
    /\ ~CanBuy(Head(signals), position)
    /\ CanSell(Head(signals), position)
    /\ LET price == data[i + 1].Close
           revenue == position * price
       IN trades' = Append(trades,
              SellRecord(i, price, position, revenue, capital,
                         Head(signals).reason))
    /\ position' = 0
    /\ signals' = Tail(signals)
    /\ UNCHANGED <<initial_capital, capital, pc, data, len_df, i, result,
                   calls, ev_vars>>
\* backtester.py:92-105
ExecSell ==
    /\ pc = "signals"
    /\ signals # <<>>
    /\ ~CanBuy(Head(signals), position)
    /\ CanSell(Head(signals), position)
    /\ LET price == data[i + 1].Close
           revenue == position * price
       IN /\ capital' = capital + revenue
          /\ trades' = Append(trades,
                 SellRecord(i, price, position, revenue, capital + revenue,
                            Head(signals).reason))
          /\ position' = 0
    /\ signals' = Tail(signals)
    /\ UNCHANGED <<initial_capital, pc, data, len_df, i, result, calls, ev_vars>>

\* backtester.py:75-105: neither branch is taken
DropSignal ==
    /\ pc = "signals"
    /\ signals # <<>>
    /\ ~CanBuy(Head(signals), position)
    /\ ~CanSell(Head(signals), position)
    /\ signals' = Tail(signals)
    /\ UNCHANGED <<Ledger, pc, data, len_df, i, result, calls, ev_vars>>

\* backtester.py:66: the next iteration of the loop over the bars
NextBar ==
    /\ pc = "signals"
    /\ signals = <<>>
    /\ i' = i + 1
    /\ pc' = "loop"
    /\ UNCHANGED <<Ledger, data, len_df, signals, result, calls, ev_vars>>

\* backtester.py:107-111: return self.calculate_metrics(), None if it raises
Finish ==
    /\ pc = "loop"
    /\ i = len_df
    /\ LET m == calculate_metrics(trades, capital, position, initial_capital)
       IN result' = IF m.kind = "Raise" THEN None ELSE m
    /\ pc' = "done"
    /\ UNCHANGED <<Ledger, data, len_df, i, signals, calls, ev_vars>>

\* run_backtest called again on the same instance, __init__ reset
CallAgainOnFreshInstance ==
    /\ pc = "done"
    /\ calls < MaxCalls
    /\ calls' = calls + 1
    /\ pc' = "idle"
    /\ capital' = initial_capital
    /\ position' = 0
    /\ trades' = <<>>
    /\ i' = 0
    /\ signals' = <<>>
    /\ result' = [kind |-> "pending"]
    /\ UNCHANGED <<initial_capital, data, len_df, ev_vars>>
\* run_backtest is called again on the same instance (backtester.py:48):
\* its locals are fresh, self.capital, self.position and self.trades are
\* set by __init__ only
CallAgain ==
    /\ pc = "done"
    /\ calls < MaxCalls
    /\ calls' = calls + 1
    /\ pc' = "idle"
    /\ i' = 0
    /\ signals' = <<>>
    /\ result' = [kind |-> "pending"]
    /\ UNCHANGED <<Ledger, data, len_df, ev_vars>>

Next ==
    \/ CallAgain
    \/ FetchNothing
    \/ FetchData
    \/ SkipBar
    \/ EvalBar
    \/ ExecBuy
    \/ ExecSell
    \/ DropSignal
    \/ NextBar
    \/ Finish

Spec == Init /\ [][Next]_vars

----------------------------------------------------------------------------
(* One call of a strategy, or of an aggregator, on a frame drawn from the  *)
(* families below.  The frames of a family vary the columns its strategy   *)
(* reads; every function can be called on every frame.                     *)

\* RSI values are the multiples of 1/RsiSteps in [0, 100]
RsiSteps == 2

PlainBar(close, volume, rsi) ==
    Bar(close, close + 50, close - 50, volume, rsi, NaN, NaN, NaN, NaN)

RsiValues == {Fl(k, RsiSteps) : k \in 0..(100 * RsiSteps)} \cup {NaN}

RsiFrames == {Frame(<<PlainBar(1000, 100, r)>>) : r \in RsiValues}

\* <<rsi_buy, rsi_sell>> with 0 < rsi_buy < rsi_sell < 100
RsiParams == {<<RsiBuyDefault, RsiSellDefault>>, <<30, 70>>, <<1, 99>>, <<50, 51>>}

MacdValues == {NaN, Fl(-1, 2), Fl(-1, 5), Fl(1, 10), Fl(3, 10), Fl(2, 1)}

MacdBar(macd, macd_signal) ==
    Bar(1000, 1050, 950, 100, Fl(50, 1), macd, macd_signal, NaN, NaN)

MacdFrames ==
    {Frame(<<MacdBar(pm, ps), MacdBar(cm, cs)>>) :
        pm \in MacdValues, ps \in MacdValues,
        cm \in MacdValues, cs \in MacdValues}
    \cup {Frame(<<MacdBar(Fl(3, 10), Fl(1, 10))>>)}

BandPairs == {<<Fl(1000, 1), Fl(1000, 1)>>, <<Fl(1000, 1), Fl(1100, 1)>>,
              <<Fl(800, 1), Fl(1000, 1)>>, <<NaN, NaN>>}

BandCloses == {400, 990, 995, 996, 1000, 1004, 1005, 1006, 1094, 1095, 1100,
               2500}

BollingerFrames ==
    {Frame(<<Bar(c, c + 50, c - 50, 100, Fl(50, 1), NaN, NaN, b[2], b[1])>>) :
        c \in BandCloses, b \in BandPairs}

\* n - 1 bars of volume 1000 and close 1000, then the current bar
VolumeFrames ==
    {Frame([k \in 1..n |->
              IF k < n THEN PlainBar(1000, 1000, Fl(50, 1))
              ELSE PlainBar(c, v, Fl(50, 1))]) :
        n \in {VolumeMinBars - 1, VolumeMinBars, VolumeMinBars + 1},
        c \in {990, 1000, 1010},
        v \in {0, 1000, 1500, 1600, 1700, 2500, 5000}}

\* LongHistory with highs of 2098 at rows 34-36 and the given RSI at row
\* 40: after RSI 80 a bar with a lower high and a falling RSI above 60
\* near 2100 gives SELL, after RSI 20 a rising RSI below 30 near 900 BUY
SwingHistory(prev_rsi) ==
    [k \in 1..(2 * SRWindow) |->
        [LongHistory[k] EXCEPT
            !.High = IF k \in 34..36 THEN 2098 ELSE @,
            !.RSI = IF k = 2 * SRWindow THEN Fl(prev_rsi, 1) ELSE @]]

SwingHistories == {LongHistory, SwingHistory(20), SwingHistory(80)}

\* the current bar of a swing frame: close below the support 900, within
\* 2% above it, exactly 2% above it, between the levels, within 2% of the
\* resistance 2100, above it
SwingLastBars ==
    {Bar(c, c + 5, c - 5, v, r, NaN, NaN, Fl(4000, 1), Fl(500, 1)) :
        c \in {890, 910, 918, 930, 2090, 2110},
        v \in {100, 5000},
        r \in {NaN, Fl(25, 1), Fl(35, 1), Fl(37, 1), Fl(40, 1), Fl(65, 1),
               Fl(75, 1), Fl(85, 1)}}

SwingFrames ==
    {Frame(LongHistory \o <<b>>) : b \in BarChoices}
    \cup {Frame(h \o <<b>>) : h \in SwingHistories,
                               b \in SwingLastBars}

\* frames on which a read fails: no row at all, or a column is missing
FaultyFrames ==
    {Frame(<<>>)}
    \cup {[cols |-> AllCols \ {c}, rows |-> ShortHistory \o <<BuyBar>>] :
             c \in {"Volume", "MACD", "BB_low", "RSI"}}

\* the lists of at most MaxLevels pivot prices handed to cluster_levels
MaxLevels == 3

LevelValues == {1000, 1005, 1015, 1025, 1035, 2000}

LevelLists ==
    UNION {[1..n -> LevelValues] : n \in 0..MaxLevels}

Thresholds == {<<SRThresholdNum, SRThresholdDen>>, <<1, 100>>}

\* short frames for find_support_resistance(df, window=2): every bar has
\* low 900 or 950 (high 2100 or 2050) and volume 100 or 1000
PivotWindow == 2
MaxPivotBars == 5

PivotFrames ==
    UNION {{Frame([k \in 1..n |->
                     Bar(1000, 3000 - lows[k], lows[k], vols[k], Fl(50, 1),
                         NaN, NaN, NaN, NaN)]) :
               lows \in [1..n -> {900, 950}], vols \in [1..n -> {100, 1000}]} :
           n \in (2 * PivotWindow + 1)..MaxPivotBars}

\* predict_trend hands three verdicts to _combine_signals
EstimatorCount == 3

\* confidences are the multiples of 1/ConfSteps in [0, 1], and 0.3
ConfSteps == 2

Confidences == {Rat(k, ConfSteps) : k \in 0..ConfSteps} \cup {<<3, 10>>}

\* n bars: close 1000 up to 20 bars before the end, then 19 closes at
\* `recent` and the current close c
TrendLengths == {1, MAShort - 1, MAShort, MALong - 1, MALong, MALong + 1}

TrendFrames ==
    {Frame([k \in 1..n |->
              PlainBar(IF k = n THEN tr[2] ELSE IF k > n - MAShort THEN tr[1]
                       ELSE 1000,
                       100, Fl(50, 1))]) :
        n \in TrendLengths,
        tr \in {<<1004, 1010>>, <<996, 990>>, <<1000, 1000>>, <<1004, 1000>>}}

EvalFrames == MacdFrames \cup BollingerFrames \cup VolumeFrames
              \cup SwingFrames \cup FaultyFrames \cup TrendFrames

StrategyNames == {"rsi_strategy", "macd_cross_strategy",
                  "bollinger_bands_strategy", "volume_price_strategy",
                  "swing_trade_strategy"}

BtIdle ==
    /\ initial_capital = 0
    /\ capital = 0
    /\ position = 0
    /\ trades = <<>>
    /\ pc = "off"
    /\ calls = 0
    /\ data = <<>>
    /\ len_df = 0
    /\ i = 0
    /\ signals = <<>>
    /\ result = [kind |-> "pending"]

InitEval ==
    /\ BtIdle
    /\ \/ /\ e_df \in RsiFrames
          /\ e_params \in RsiParams
          /\ e_levels = <<>>
          /\ e_threshold = <<SRThresholdNum, SRThresholdDen>>
          /\ e_window = SRWindow
          /\ e_trend_signals = <<>>
          /\ e_confidences = <<>>
       \/ /\ e_df \in EvalFrames
          /\ DefaultArgs
       \/ /\ e_df = Frame(<<>>)
          /\ e_params = <<RsiBuyDefault, RsiSellDefault>>
          /\ e_levels \in LevelLists
          /\ e_threshold \in Thresholds
          /\ e_window = SRWindow
          /\ e_trend_signals = <<>>
          /\ e_confidences = <<>>
       \/ /\ e_df \in PivotFrames
          /\ e_params = <<RsiBuyDefault, RsiSellDefault>>
          /\ e_levels = <<>>
          /\ e_threshold = <<SRThresholdNum, SRThresholdDen>>
          /\ e_window = PivotWindow
          /\ e_trend_signals = <<>>
          /\ e_confidences = <<>>
       \/ /\ e_df = Frame(<<>>)
          /\ e_params = <<RsiBuyDefault, RsiSellDefault>>
          /\ e_levels = <<>>
          /\ e_threshold = <<SRThresholdNum, SRThresholdDen>>
          /\ e_window = SRWindow
          /\ e_trend_signals \in [1..EstimatorCount -> Directions]
          /\ e_confidences \in [1..EstimatorCount -> Confidences]
    /\ e_pc = "ready"
    /\ e_call = "none"
    /\ e_ret = None
    /\ e_idx = 1
    /\ e_signals = <<>>

Returned(name, value) ==
    /\ e_pc = "ready"
    /\ e_pc' = "done"
    /\ e_call' = name
    /\ e_ret' = value
    /\ UNCHANGED <<e_df, e_args, e_idx, e_signals, bt_vars>>

CallRsi == Returned("rsi_strategy", rsi_strategy(e_df, e_params[1], e_params[2]))
CallMacd == Returned("macd_cross_strategy", macd_cross_strategy(e_df))
CallBollinger == Returned("bollinger_bands_strategy", bollinger_bands_strategy(e_df))
CallVolume == Returned("volume_price_strategy", volume_price_strategy(e_df))
CallSwing == Returned("swing_trade_strategy", swing_trade_strategy(e_df))

\* find_support_resistance(df, window, threshold): the pivots its loop
\* appends (strategies.py:175-186) and the clustered levels it returns
CallFindSupportResistance ==
    LET n == Len(e_df.rows)
        r == find_support_resistance(e_df, e_window, e_threshold)
    IN Returned("find_support_resistance",
                IF Access(e_df, << <<"High", 0>>, <<"Low", 0>>, <<"Volume", 0>> >>)
                     # "ok"
                THEN Raise("KeyError")
                ELSE [kind |-> "SupportResistance",
                      support_levels |->
                          SupportPivots(e_df.rows, e_window + 1, n - e_window, e_window),
                      resistance_levels |->
                          ResistancePivots(e_df.rows, e_window + 1, n - e_window,
                                           e_window),
                      support |-> r.support,
                      resistance |-> r.resistance])

\* cluster_levels(levels, threshold) (strategies.py:189-205)
CallClusterLevels ==
    Returned("cluster_levels",
             [kind |-> "Levels", levels |-> cluster_levels(e_levels, e_threshold)])

\* the sub-estimators and predict_trend of TrendPredictor
ReturnedEstimate(name, estimate) ==
    Returned(name, [kind |-> "Estimate", direction |-> estimate.direction,
                    confidence |-> estimate.confidence])

CallAnalyzeMovingAverages ==
    ReturnedEstimate("_analyze_moving_averages", analyze_moving_averages(e_df))
CallAnalyzeMomentum ==
    ReturnedEstimate("_analyze_momentum", analyze_momentum(e_df))
CallAnalyzePricePattern ==
    ReturnedEstimate("_analyze_price_pattern", analyze_price_pattern(e_df))
CallPredictTrend == Returned("predict_trend", predict_trend(e_df))

\* TrendPredictor._combine_signals(signals, confidences)
CallCombineSignals ==
    Returned("_combine_signals", combine_signals(e_trend_signals, e_confidences))

\* Backtester.analyze_signals(df); an exception of a strategy leaves it
CallBacktesterAnalyze ==
    LET r == Backtester_analyze_signals(e_df) IN
    Returned("Backtester.analyze_signals",
             IF r.raised THEN Raise("Exception")
             ELSE [kind |-> "List", signals |-> r.signals])

\* bot.py:58-66: signals = []; strategies = [...]
BotAnalyzeStart ==
    /\ e_pc = "ready"
    /\ e_pc' = "running"
    /\ e_call' = "TradingBot.analyze_signals"
    /\ e_idx' = 1
    /\ e_signals' = <<>>
    /\ UNCHANGED <<e_df, e_args, e_ret, bt_vars>>

\* bot.py:68-71: one iteration; an exception of strategy(df) is not caught
BotAnalyzeStep ==
    /\ e_pc = "running"
    /\ e_idx <= Len(BotStrategyNames)
    /\ LET signal == CallStrategy(BotStrategyNames[e_idx], e_df) IN
       IF signal.kind = "Raise"
       THEN /\ e_pc' = "done"
            /\ e_ret' = signal
            /\ UNCHANGED <<e_idx, e_signals>>
       ELSE /\ e_signals' = IF BotKeeps(signal) THEN Append(e_signals, signal)
                            ELSE e_signals
            /\ e_idx' = e_idx + 1
            /\ UNCHANGED <<e_pc, e_ret>>
    /\ UNCHANGED <<e_df, e_args, e_call, bt_vars>>

\* bot.py:73: return signals
BotAnalyzeReturn ==
    /\ e_pc = "running"
    /\ e_idx > Len(BotStrategyNames)
    /\ e_pc' = "done"
    /\ e_ret' = [kind |-> "List", signals |-> e_signals]
    /\ UNCHANGED <<e_df, e_args, e_call, e_idx, e_signals, bt_vars>>

NextEval ==
    \/ CallRsi
    \/ CallMacd
    \/ CallBollinger
    \/ CallVolume
    \/ CallSwing
    \/ CallFindSupportResistance
    \/ CallClusterLevels
    \/ CallCombineSignals
    \/ CallAnalyzeMovingAverages
    \/ CallAnalyzeMomentum
    \/ CallAnalyzePricePattern
    \/ CallPredictTrend
    \/ CallBacktesterAnalyze
    \/ BotAnalyzeStart
    \/ BotAnalyzeStep
    \/ BotAnalyzeReturn

SpecEval == InitEval /\ [][NextEval]_vars

----------------------------------------------------------------------------
(* Properties of the backtest (checked under Spec).                        *)

\* number of records of the given type among the first k of the log
TypeCount(log, k, type) == Cardinality({j \in 1..k : log[j].type = type})

\* a step appends exactly one record of the given type to the log
Appended(type) ==
    /\ Len(trades') = Len(trades) + 1
    /\ SubSeq(trades', 1, Len(trades)) = trades
    /\ trades'[Len(trades')].type = type

BuyExecuted == Appended("BUY")
SellExecuted == Appended("SELL")
LedgerChanged == <<capital, position, trades>>' # <<capital, position, trades>>

\* C1: at every prefix of the trade log the number of BUY records minus the
\* number of SELL records is 0 or 1 (no two BUYs without a SELL between).
C1_BuySellBalance ==
    \A k \in 0..Len(trades) :
        TypeCount(trades, k, "BUY") - TypeCount(trades, k, "SELL") \in {0, 1}

\* C2: position is always a non-negative integer; a step that executes a BUY
\* starts from position = 0, a step that executes a SELL from position > 0,
\* and the ledger changes only by executing a BUY or a SELL.
C2_PositionDiscipline ==
    /\ [](position \in Nat)
    /\ [][/\ BuyExecuted => position = 0
          /\ SellExecuted => position > 0
          /\ LedgerChanged => (BuyExecuted \/ SellExecuted)]_vars

\* a BUY of at least one share was executed and later sold
C2_Witness ==
    \E k \in 1..Len(trades) :
        /\ k > 1
        /\ trades[k].type = "SELL"
        /\ trades[k - 1].type = "BUY"
        /\ trades[k - 1].shares > 0
        /\ position = 0

\* C3: the cost of every executed BUY is at most the capital held just before
\* it (and is what the BUY takes from capital), so capital is never negative.
C3_CostWithinCapital ==
    /\ [](capital >= 0)
    /\ [][BuyExecuted =>
            /\ trades'[Len(trades')].cost <= capital
            /\ trades'[Len(trades')].cost
                 = trades'[Len(trades')].shares * trades'[Len(trades')].price
            /\ capital' = capital - trades'[Len(trades')].cost]_vars

\* a BUY that spent part of the capital has just been executed
C3_Witness ==
    /\ trades # <<>>
    /\ trades[Len(trades)].type = "BUY"
    /\ trades[Len(trades)].cost > 0
    /\ trades[Len(trades)].capital = capital
    /\ capital > 0

\* C4: every step that changes capital, position or the trade log processes a
\* signal whose strength is at least the minimum threshold 0.3.
C4_TradesNeedThreshold ==
    [][LedgerChanged =>
         /\ signals # <<>>
         /\ RLe(min_signal_strength, Head(signals).strength)]_vars

\* C8: once run_backtest has replayed a non-empty series it has returned the
\* metrics of the trade log: total_trades = len \div 2, profitable_trades =
\* the pairs (2k-1, 2k) with revenue - cost > 0, total_return = capital +
\* position * last price (if holding) - initial_capital, return_pct =
\* total_return / initial_capital * 100, all of them 0 for an empty log.
C8_MetricsFormula ==
    (pc = "done" /\ len_df > 0 /\ i = len_df) =>
        /\ result.kind = "metrics"
        /\ result.trades = trades
        /\ result.total_trades = Len(trades) \div 2
        /\ result.profitable_trades =
               Cardinality({k \in 1..Len(trades) :
                   /\ k % 2 = 0
                   /\ trades[k].revenue - trades[k - 1].cost > 0})
        /\ trades # <<>> =>
               result.total_return =
                   capital
                   + (IF position > 0
                      THEN position * trades[Len(trades)].price ELSE 0)
                   - initial_capital
        /\ (trades # <<>> /\ initial_capital # 0) =>
               /\ ~result.return_pct.nan
               /\ result.return_pct.v[1] * initial_capital
                    = result.total_return * 100 * result.return_pct.v[2]
        /\ trades = <<>> =>
               /\ result.total_return = 0
               /\ result.profitable_trades = 0
               /\ result.total_trades = 0
               /\ REq(result.return_pct.v, RZero)

----------------------------------------------------------------------------
(* Properties of the evaluators and aggregators (checked under SpecEval).  *)

Called(name) == e_pc = "done" /\ e_call = name

\* the frame has a current bar with every column
WellFormed(df) == df.cols = AllCols /\ Len(df.rows) >= 1

\* the signals the five evaluators give on df that reach the threshold
FilteredFive(df) ==
    {CallStrategy(name, df) : name \in StrategyNames}
    \cap {sig \in {CallStrategy(name, df) : name \in StrategyNames} :
             sig.kind = "Signal" /\ RLe(min_signal_strength, sig.strength)}

\* C5: what an aggregator returns is exactly the signals of the five
\* evaluators whose strength is at least the threshold.
C5_AggregatorIsFilteredFive ==
    ((Called("TradingBot.analyze_signals") \/ Called("Backtester.analyze_signals"))
      /\ e_ret.kind = "List")
        => SeqToSet(e_ret.signals) = FilteredFive(e_df)

\* C6: a failing evaluator is isolated: TradingBot.analyze_signals returns a
\* list (no exception reaches its caller) holding the signals, at or above
\* the threshold, of every evaluator of its list that did not fail.
C6_FailuresIsolated ==
    Called("TradingBot.analyze_signals") =>
        /\ e_ret.kind = "List"
        /\ \A k \in 1..Len(BotStrategyNames) :
               LET r == CallStrategy(BotStrategyNames[k], e_df) IN
               BotKeeps(r) => r \in SeqToSet(e_ret.signals)

\* RSI in [0, 100], positive close, Bollinger bands with high >= low > 0
C7_Precondition(df) ==
    /\ WellFormed(df)
    /\ LET bar == Iloc(df, 1) IN
       /\ bar.Close > 0
       /\ FLe(Fl(0, 1), bar.RSI) /\ FLe(bar.RSI, Fl(100, 1))
       /\ FLt(Fl(0, 1), bar.BB_low) /\ FLe(bar.BB_low, bar.BB_high)

\* C7: every Signal an evaluator emits has strength in [0, 1].
C7_StrengthInUnitInterval ==
    (e_pc = "done" /\ e_call \in StrategyNames /\ e_ret.kind = "Signal"
       /\ C7_Precondition(e_df))
        => RLe(RZero, e_ret.strength) /\ RLe(e_ret.strength, ROne)

\* C9: with RSI in [0, 100] the RSI evaluator emits BUY of strength
\* 1 - RSI/rsi_buy exactly when RSI < rsi_buy, SELL of strength
\* (RSI - rsi_sell)/(100 - rsi_sell) exactly when RSI > rsi_sell, nothing
\* otherwise, and the strength lies in [0, 1].
C9_RsiEvaluator ==
    (Called("rsi_strategy") /\ WellFormed(e_df) /\ ~Iloc(e_df, 1).RSI.nan) =>
        LET rsi == Iloc(e_df, 1).RSI.v
            rsi_buy == e_params[1]
            rsi_sell == e_params[2]
            below == rsi[1] < rsi_buy * rsi[2]
            above == rsi[1] > rsi_sell * rsi[2]
        IN /\ 0 < rsi_buy /\ rsi_buy < rsi_sell /\ rsi_sell < 100
           /\ below <=> (e_ret.kind = "Signal" /\ e_ret.type = "BUY")
           /\ above <=> (e_ret.kind = "Signal" /\ e_ret.type = "SELL")
           /\ (~below /\ ~above) <=> (e_ret = None)
           /\ below =>
                e_ret.strength[1] * (rsi_buy * rsi[2])
                  = e_ret.strength[2] * (rsi_buy * rsi[2] - rsi[1])
           /\ above =>
                e_ret.strength[1] * ((100 - rsi_sell) * rsi[2])
                  = e_ret.strength[2] * (rsi[1] - rsi_sell * rsi[2])
           /\ e_ret.kind = "Signal" =>
                /\ 0 <= e_ret.strength[1]
                /\ e_ret.strength[1] <= e_ret.strength[2]
                /\ e_ret.price = Iloc(e_df, 1).Close

\* rsi_buy = 35, RSI = 20: BUY of strength 1 - 20/35 = 3/7
C9_Witness ==
    /\ Called("rsi_strategy")
    /\ e_params = <<35, 65>>
    /\ Iloc(e_df, 1).RSI = Fl(20, 1)
    /\ e_ret.kind = "Signal"
    /\ e_ret.type = "BUY"
    /\ e_ret.strength = <<3, 7>>

\* C10: the MACD evaluator emits BUY exactly when there are >= 2 bars,
\* prev MACD <= prev signal and current MACD > current signal; SELL exactly
\* when there are >= 2 bars, prev MACD >= prev signal and current MACD <
\* current signal; nothing otherwise; never both; strength =
\* min(1, |current MACD - current signal|).
C10_MacdEvaluator ==
    (Called("macd_cross_strategy") /\ WellFormed(e_df)) =>
        LET n == Len(e_df.rows)
            cm == e_df.rows[n].MACD
            cs == e_df.rows[n].MACD_signal
            up == /\ n >= 2
                  /\ FLe(e_df.rows[n - 1].MACD, e_df.rows[n - 1].MACD_signal)
                  /\ FGt(cm, cs)
            down == /\ n >= 2
                    /\ FGe(e_df.rows[n - 1].MACD, e_df.rows[n - 1].MACD_signal)
                    /\ FLt(cm, cs)
            gap == <<Abs(cm.v[1] * cs.v[2] - cs.v[1] * cm.v[2]), cm.v[2] * cs.v[2]>>
        IN /\ ~(up /\ down)
           /\ up <=> (e_ret.kind = "Signal" /\ e_ret.type = "BUY")
           /\ down <=> (e_ret.kind = "Signal" /\ e_ret.type = "SELL")
           /\ (~up /\ ~down) <=> (e_ret = None)
           /\ e_ret.kind = "Signal" =>
                IF gap[1] >= gap[2]
                THEN REq(e_ret.strength, ROne)
                ELSE REq(e_ret.strength, gap)

\* prev (MACD -0.5, signal -0.2), current (0.3, 0.1): BUY of strength 0.2
C10_Witness ==
    /\ Called("macd_cross_strategy")
    /\ Len(e_df.rows) = 2
    /\ e_df.rows[1].MACD = Fl(-1, 2) /\ e_df.rows[1].MACD_signal = Fl(-1, 5)
    /\ e_df.rows[2].MACD = Fl(3, 10) /\ e_df.rows[2].MACD_signal = Fl(1, 10)
    /\ e_ret.kind = "Signal"
    /\ e_ret.type = "BUY"
    /\ e_ret.strength = <<1, 5>>

\* the Bollinger evaluator returned on a frame whose bands are numbers
BollingerCase ==
    /\ Called("bollinger_bands_strategy")
    /\ WellFormed(e_df)
    /\ ~Iloc(e_df, 1).BB_low.nan
    /\ ~Iloc(e_df, 1).BB_high.nan

\* close < lower_band * 1.005, with lower_band = lo[1] / lo[2]
BelowLowerEdge(close, lo) == close * 1000 * lo[2] < lo[1] * 1005
\* close > upper_band * 0.995
AboveUpperEdge(close, hi) == close * 1000 * hi[2] > hi[1] * 995

\* what the evaluator returned is the signal of the given type and strength
EmitsExactly(type, close, strength) ==
    /\ e_ret.kind = "Signal"
    /\ e_ret.type = type
    /\ e_ret.price = close
    /\ REq(e_ret.strength, strength)

C12_VolumePriceEvaluator ==
    (Called("volume_price_strategy") /\ WellFormed(e_df)) =>
        LET n == Len(e_df.rows)
            cv == e_df.rows[n].Volume
            total == SumCol(e_df.rows, "Volume", n - 19, n)
            \* cv > 1.5 * total / 20
            surge == n >= 20 /\ cv * 40 > 3 * total
            \* cv / (total / 20) - 1
            excess == <<cv * 20 - total, total>>
            strength == IF excess[1] >= excess[2] THEN ROne ELSE excess
            rose == e_df.rows[n].Close > e_df.rows[n - 1].Close
            fell == e_df.rows[n].Close < e_df.rows[n - 1].Close
        IN /\ e_ret.kind = "Signal" => surge
           /\ (surge /\ rose) <=>
                EmitsExactly("BUY", e_df.rows[n].Close, strength)
           /\ (surge /\ fell) <=>
                EmitsExactly("SELL", e_df.rows[n].Close, strength)
           /\ (~surge \/ (~rose /\ ~fell)) <=> (e_ret = None)

\* 19 bars of volume 1000, then volume 1600 on a rising close: the mean is
\* 1030, 1600 > 1545, BUY of strength 1600/1030 - 1 = 57/103
C12_Witness ==
    /\ Called("volume_price_strategy")
    /\ Len(e_df.rows) = 20
    /\ Iloc(e_df, 1).Volume = 1600
    /\ Iloc(e_df, 1).Close > Iloc(e_df, 2).Close
    /\ e_ret.kind = "Signal"
    /\ e_ret.type = "BUY"
    /\ e_ret.strength = <<57, 103>>

\* the positions, in the ascending list, where a cluster opens: position 1,
\* and every later position whose value is more than threshold (relative)
\* away from the value at the latest opening before it
ClusterStarts(sorted, threshold) ==
    CHOOSE S \in SUBSET (1..Len(sorted)) :
        /\ 1 \in S
        /\ \A k \in 2..Len(sorted) :
               LET f == CHOOSE x \in S : x < k /\ \A y \in S : y < k => y <= x
               IN k \in S <=>
                    (sorted[k] - sorted[f]) * threshold[2] > threshold[1] * sorted[f]

\* C13: cluster_levels sorts the values ascending, closes the open cluster
\* when the next value is more than threshold relative distance from the
\* FIRST value of the open cluster, and outputs the mean of each cluster:
\* the output is ascending, no longer than the input, empty exactly when the
\* input is empty, and [1000, 1005, 2000] with threshold 0.02 gives
\* [1002.5, 2000] (the spec's [100, 100.5, 200] in tenths).
C13_ClusterLevels ==
    Called("cluster_levels") =>
        LET out == e_ret.levels
            sorted == SortSeq(e_levels, LAMBDA x, y : x < y)
            S == ClusterStarts(sorted, e_threshold)
        IN /\ e_ret.kind = "Levels"
           /\ Len(out) <= Len(e_levels)
           /\ (out = <<>>) <=> (e_levels = <<>>)
           /\ \A k \in 1..(Len(out) - 1) : RLt(out[k], out[k + 1])
           /\ e_levels # <<>> =>
                /\ Len(out) = Cardinality(S)
                /\ \A a \in S :
                       LET r == Cardinality({x \in S : x <= a})
                           later == {x \in S : x > a}
                           b == IF later = {} THEN Len(sorted)
                                ELSE (CHOOSE x \in later : \A y \in later : x <= y) - 1
                       IN out[r][1] * (b - a + 1)
                            = out[r][2] * SumSeq(SubSeq(sorted, a, b))
           /\ (e_levels = <<1000, 1005, 2000>> /\ e_threshold = <<2, 100>>) =>
                out = << <<2005, 2>>, <<2000, 1>> >>

\* [1025, 1000, 1015] with threshold 0.02: 1025 is within 2% of 1015 and of
\* the running mean 1007.5 but not of the first value 1000, so it opens a
\* second cluster: [1007.5, 1025]
C13_Witness ==
    /\ Called("cluster_levels")
    /\ e_levels = <<1025, 1000, 1015>>
    /\ e_threshold = <<2, 100>>
    /\ e_ret.levels = << <<2015, 2>>, <<1025, 1>> >>

\* C14: on three verdicts _combine_signals returns UP when UP votes exceed
\* DOWN votes and DOWN when DOWN votes exceed UP votes, with strength =
\* mean(confidences) * (votes of the winning direction / 3) and reason
\* '<Bullish|Bearish> signals: k/3 indicators'; on equal votes (0-0
\* included) it returns SIDEWAYS with strength = mean(confidences) and
\* reason 'Mixed signals'; it always returns a verdict, whose strength is
\* in [0, 1] when the three confidences are.
C14_CombineSignals ==
    (Called("_combine_signals") /\ Len(e_trend_signals) = 3) =>
        LET up == Cardinality({k \in 1..3 : e_trend_signals[k] = "UP"})
            down == Cardinality({k \in 1..3 : e_trend_signals[k] = "DOWN"})
            c == e_confidences
            \* c[1] + c[2] + c[3] as one fraction
            total == <<c[1][1] * c[2][2] * c[3][2] + c[2][1] * c[1][2] * c[3][2]
                         + c[3][1] * c[1][2] * c[2][2],
                       c[1][2] * c[2][2] * c[3][2]>>
            mean == <<total[1], 3 * total[2]>>
        IN /\ e_ret.kind = "Verdict"
           /\ up > down =>
                /\ e_ret.direction = "UP"
                /\ REq(e_ret.strength, <<mean[1] * up, mean[2] * 3>>)
                /\ e_ret.reason = <<"Bullish signals", up, 3>>
           /\ down > up =>
                /\ e_ret.direction = "DOWN"
                /\ REq(e_ret.strength, <<mean[1] * down, mean[2] * 3>>)
                /\ e_ret.reason = <<"Bearish signals", down, 3>>
           /\ up = down =>
                /\ e_ret.direction = "SIDEWAYS"
                /\ REq(e_ret.strength, mean)
                /\ e_ret.reason = <<"Mixed signals">>
           /\ (\A k \in 1..3 : RLe(RZero, c[k]) /\ RLe(c[k], ROne)) =>
                RLe(RZero, e_ret.strength) /\ RLe(e_ret.strength, ROne)

\* UP, DOWN, SIDEWAYS with confidences 1, 1/2, 0.3: one vote each way is
\* a tie, SIDEWAYS of strength (1 + 1/2 + 3/10) / 3 = 3/5
C14_Witness ==
    /\ Called("_combine_signals")
    /\ e_trend_signals = <<"UP", "DOWN", "SIDEWAYS">>
    /\ e_confidences = << <<1, 1>>, <<1, 2>>, <<3, 10>> >>
    /\ e_ret.direction = "SIDEWAYS"
    /\ e_ret.strength = <<3, 5>>
    /\ e_ret.reason = <<"Mixed signals">>

\* C15: a trend sub-estimator that lacks the bars it needs (the
\* moving-average estimator on fewer than 50 bars, MA50 or MA20 undefined)
\* returns (SIDEWAYS, 0.0), and nothing is raised to predict_trend's caller.
C15_InsufficientBarsDegrade ==
    /\ (Called("_analyze_moving_averages") /\ Len(e_df.rows) < 50) =>
          /\ e_ret.kind = "Estimate"
          /\ e_ret.direction = "SIDEWAYS"
          /\ REq(e_ret.confidence, RZero)
    /\ Called("predict_trend") => e_ret.kind = "Verdict"

----------------------------------------------------------------------------
(* Properties of the backtest (checked under Spec), continued.             *)

\* the record a step has just appended
LastTrade == trades[Len(trades)]
NewTrade == trades'[Len(trades')]

\* C16: when the fetch gives an empty series or raises, run_backtest
\* returns None without evaluating anything: no bar is read, no evaluator
\* is run, no trade is recorded, capital, position and the trade log stay
\* as they were.
C16_EmptySeriesReturnsNone ==
    /\ [][(pc = "idle" /\ pc' = "done") =>
            /\ result' = None
            /\ UNCHANGED <<capital, position, trades, data, i, signals>>]_vars
    /\ []((pc = "done" /\ len_df = 0) =>
            /\ result = None
            /\ data = <<>> /\ i = 0 /\ signals = <<>>
            /\ trades = <<>> /\ position = 0 /\ capital = initial_capital)

\* run_backtest has returned None on an empty series, capital untouched
C16_Witness ==
    /\ pc = "done"
    /\ len_df = 0
    /\ result = None
    /\ initial_capital = 10000
    /\ capital = 10000
    /\ trades = <<>>

\* C17: an executed BUY at close p from capital c (position 0) sets shares
\* = floor(0.95 * c / p), cost = shares * p, capital = c - cost, position =
\* shares, and appends one BUY record with price p, these shares and cost,
\* and the capital after the trade.
C17_BuyExecution ==
    [][BuyExecuted =>
         LET p == data[i + 1].Close
             c == capital
             \* floor(0.95 * c / p)
             shares == CHOOSE q \in 0..c :
                          /\ q * p * 100 <= 95 * c
                          /\ (q + 1) * p * 100 > 95 * c
         IN /\ position = 0
            /\ position' = shares
            /\ capital' = c - shares * p
            /\ NewTrade.price = p
            /\ NewTrade.shares = shares
            /\ NewTrade.cost = shares * p
            /\ NewTrade.capital = capital']_vars

\* capital 10000, close 1000: 9 shares bought for 9000, capital 1000 left
C17_Witness ==
    /\ trades # <<>>
    /\ LastTrade.type = "BUY"
    /\ LastTrade.price = 1000
    /\ LastTrade.shares = 9
    /\ LastTrade.cost = 9000
    /\ LastTrade.capital = 1000
    /\ position = 9
    /\ capital = 1000

\* C18: an executed SELL at close p with position q > 0 sells the whole
\* position: revenue = q * p, capital grows by exactly revenue, position
\* becomes 0, and one SELL record is appended whose shares field is q and
\* whose capital field is the capital after the sale.
C18_SellExecution ==
    [][SellExecuted =>
         LET p == data[i + 1].Close
             q == position
         IN /\ q > 0
            /\ capital' = capital + q * p
            /\ position' = 0
            /\ NewTrade.price = p
            /\ NewTrade.shares = q
            /\ NewTrade.revenue = q * p
            /\ NewTrade.capital = capital']_vars

\* 9 shares bought at 1000 and sold at 2000: revenue 18000, capital 19000
C18_Witness ==
    /\ Len(trades) >= 2
    /\ LastTrade.type = "SELL"
    /\ LastTrade.shares = 9
    /\ LastTrade.price = 2000
    /\ LastTrade.revenue = 18000
    /\ LastTrade.capital = 19000
    /\ capital = 19000
    /\ position = 0

\* the signals analyze_signals gives on the current bar's prefix
BarSignals == Backtester_analyze_signals(Frame(SubSeq(data, 1, i + 1))).signals

\* C19: a BUY while position > 0, or a SELL while position = 0, is dropped:
\* processing it leaves capital, position and the trade log unchanged and
\* removes it from the pending signals; it is not applied at a later bar:
\* whatever changes the ledger is a signal of the current bar, recorded at
\* the current bar's date and close.
C19_UnexecutableSignalDropped ==
    /\ [][(/\ pc = "signals"
            /\ signals # <<>>
            /\ \/ Head(signals).type = "BUY" /\ position > 0
               \/ Head(signals).type = "SELL" /\ position = 0)
           => /\ UNCHANGED <<capital, position, trades>>
              /\ signals' = Tail(signals)]_vars
    /\ [][LedgerChanged =>
            /\ signals # <<>>
            /\ \E k \in 1..Len(BarSignals) :
                   /\ signals = SubSeq(BarSignals, k, Len(BarSignals))
                   /\ NewTrade.reason = BarSignals[k].reason
            /\ NewTrade.date = i
            /\ NewTrade.price = data[i + 1].Close]_vars
    /\ [](pc = "loop" => signals = <<>>)

\* a BUY signal of the current bar has been consumed while shares bought
\* at an earlier bar are held: it was dropped
C19_Witness ==
    /\ pc = "signals"
    /\ position > 0
    /\ trades # <<>>
    /\ LastTrade.type = "BUY"
    /\ LastTrade.date < i
    /\ Len(signals) < Len(BarSignals)
    /\ \A k \in 1..(Len(BarSignals) - Len(signals)) : BarSignals[k].type = "BUY"

----------------------------------------------------------------------------
(* Properties of find_support_resistance (checked under SpecEval).         *)

\* row j (1-based) has a low <= the lows of the w rows before it and of the
\* w rows after it, and a volume above the mean volume of the 2w rows
\* j-w .. j+w-1
SupportPivotAsStated(rows, j, w) ==
    /\ \A k \in (j - w)..(j - 1) : rows[j].Low <= rows[k].Low
    /\ \A k \in (j + 1)..(j + w) : rows[j].Low <= rows[k].Low
    /\ rows[j].Volume * 2 * w > SumCol(rows, "Volume", j - w, j + w - 1)

ResistancePivotAsStated(rows, j, w) ==
    /\ \A k \in (j - w)..(j - 1) : rows[j].High >= rows[k].High
    /\ \A k \in (j + 1)..(j + w) : rows[j].High >= rows[k].High
    /\ rows[j].Volume * 2 * w > SumCol(rows, "Volume", j - w, j + w - 1)

\* C20: in find_support_resistance with window w an interior bar i
\* (w <= i < n - w) is recorded as a support pivot exactly when its low is
\* <= the lows of all w bars before it and of all w bars after it (bars
\* i+1 .. i+w) and its volume exceeds the mean volume of the surrounding 2w
\* bars; resistance pivots use the same rule on highs with >=.
C20_PivotRule ==
    (Called("find_support_resistance") /\ e_ret.kind = "SupportResistance") =>
        LET rows == e_df.rows
            w == e_window
            interior == (w + 1)..(Len(rows) - w)
            supports == {j \in interior : SupportPivotAsStated(rows, j, w)}
            resistances == {j \in interior : ResistancePivotAsStated(rows, j, w)}
        IN /\ Len(e_ret.support_levels) = Cardinality(supports)
           /\ SeqToSet(e_ret.support_levels) = {rows[j].Low : j \in supports}
           /\ Len(e_ret.resistance_levels) = Cardinality(resistances)
           /\ SeqToSet(e_ret.resistance_levels) = {rows[j].High : j \in resistances}

----------------------------------------------------------------------------
(* Properties of swing_trade_strategy (checked under SpecEval).            *)

\* the largest / smallest of a non-empty set of fractions
RLargest(S) == CHOOSE x \in S : \A y \in S : RLe(y, x)
RSmallest(S) == CHOOSE x \in S : \A y \in S : RLe(x, y)

\* 0.3 + (0.2 if surge) + (0.3 if extreme else 0.1) + 0.2 * (1 - d / 0.02),
\* at most 1
SwingStrengthAsStated(surge, extreme, d) ==
    LET total == RAdd(RAdd(<<3, 10>>, IF surge THEN <<2, 10>> ELSE RZero),
                      RAdd(IF extreme THEN <<3, 10>> ELSE <<1, 10>>,
                           RMul(<<2, 10>>, RSub(ROne, RMul(d, <<50, 1>>)))))
    IN IF RLe(ROne, total) THEN ROne ELSE total

----------------------------------------------------------------------------
(* Properties of repeated backtest runs (checked under Spec).              *)

\* C22: the trade log is append-only: every step leaves the old log as a
\* prefix of the new one, so every earlier value of the log is a prefix of
\* every later value and no record is modified or removed; a second
\* run_backtest call on the same instance does not reset capital, position
\* or the log and continues from the state the first run left.
C22_TradeLogAppendOnly ==
    /\ [][/\ Len(trades') >= Len(trades)
          /\ SubSeq(trades', 1, Len(trades)) = trades]_vars
    /\ [][calls' # calls =>
            /\ pc = "done"
            /\ calls' = calls + 1
            /\ UNCHANGED <<initial_capital, capital, position, trades>>]_vars
    /\ [][(pc = "idle" /\ calls > 1) =>
            UNCHANGED <<initial_capital, capital, position, trades>>]_vars

\* the second run has appended a BUY at a bar before the bar of the SELL
\* that the first run recorded last
C22_Witness ==
    /\ calls = 2
    /\ \E k \in 1..(Len(trades) - 1) :
           /\ trades[k].type = "SELL"
           /\ trades[k + 1].type = "BUY"
           /\ trades[k + 1].date < trades[k].date

\* C23: whenever run_backtest has replayed a non-empty series to the end,
\* the trade log alternates BUY, SELL, BUY, ... starting with BUY, every
\* odd record has a cost and every even record a revenue, and run_backtest
\* has returned a metrics record, not None.
C23_LogAlternates ==
    (pc = "done" /\ len_df > 0 /\ i = len_df) =>
        /\ \A k \in 1..Len(trades) :
               /\ trades[k].type = (IF k % 2 = 1 THEN "BUY" ELSE "SELL")
               /\ (IF k % 2 = 1 THEN "cost" ELSE "revenue") \in DOMAIN trades[k]
        /\ result # None
        /\ result.kind = "metrics"

\* revenue - cost summed over the completed pairs of the first k records:
\* a SELL and the BUY recorded just before it
RECURSIVE PairProfits(_, _)
PairProfits(log, k) ==
    IF k < 2 THEN 0
    ELSE (IF log[k].type = "SELL" /\ log[k - 1].type = "BUY"
          THEN log[k].revenue - log[k - 1].cost ELSE 0)
         + PairProfits(log, k - 1)

\* C24: ledger conservation.  In every reachable state capital + (the cost
\* of the open position, 0 when position = 0) = initial_capital + the sum
\* of revenue - cost over the completed BUY/SELL pairs of the log; a SELL
\* at the price of its BUY restores the capital held before that BUY; every
\* record's capital field is the capital right after its trade.
C24_LedgerConservation ==
    /\ [](capital + (IF position > 0 THEN LastTrade.cost ELSE 0)
            = initial_capital + PairProfits(trades, Len(trades)))
    /\ [](position > 0 =>
            /\ trades # <<>>
            /\ LastTrade.type = "BUY"
            /\ LastTrade.shares = position)
    /\ [](trades # <<>> => LastTrade.capital = capital)
    /\ [][(BuyExecuted \/ SellExecuted) => NewTrade.capital = capital']_vars
    /\ [][(SellExecuted /\ NewTrade.price = LastTrade.price) =>
            capital' = LastTrade.capital + LastTrade.cost]_vars

\* 9 shares bought at 1000 and sold on the same bar at 1000: the capital
\* is back at 10000
C24_Witness ==
    /\ Len(trades) >= 2
    /\ LastTrade.type = "SELL"
    /\ trades[Len(trades) - 1].type = "BUY"
    /\ trades[Len(trades) - 1].date = LastTrade.date
    /\ trades[Len(trades) - 1].shares = 9
    /\ LastTrade.revenue = 9000
    /\ capital = 10000
    /\ position = 0

====
